---- MODULE Spec2Model ----
(***************************************************************************)
(* Hot or Cold Golf (games.py): the Question classifier, Club.swing, the   *)
(* HotOrColdGolf session and the command loop of main().                   *)
(*                                                                         *)
(* Spec     : the game, as the command loop of main() drives it, with the  *)
(*            thirteen catalog clubs and the five catalog questions.       *)
(* LongSpec : the game typing two targets only, in sessions long enough to *)
(*            run past the par of the question.                            *)
(* UnitSpec : Club.swing and Question.evaluate_guess called on their own,  *)
(*            with arbitrary small clubs and every jitter value.           *)
(***************************************************************************)
EXTENDS Integers, Sequences, FiniteSets

VARIABLES
    curr_club,      \* HotOrColdGolf._curr_club (a Club record)
    curr_question,  \* HotOrColdGolf._curr_question (a Question record)
    curr_year,      \* HotOrColdGolf._curr_year
    num_guesses,    \* HotOrColdGolf._num_guesses
    in_bunker,      \* HotOrColdGolf._in_bunker
    command,        \* main(): the line last read by input()
    pc,             \* main(): "input" (at input()), "exited" (exit(0)), "returned" (break)
    printed,        \* the result message of the last command, with the numbers it shows
    guess_calls,    \* number of times main() has invoked game.guess
    call            \* UnitSpec: the last direct call of swing / evaluate_guess

vars == <<curr_club, curr_question, curr_year, num_guesses, in_bunker,
          command, pc, printed, guess_calls, call>>

session == <<curr_club, curr_question, curr_year, num_guesses, in_bunker>>

(***************************************************************************)
(* Bounds of the model.                                                    *)
(***************************************************************************)
\* Spec: guesses per session
MaxGuesses == 4
\* LongSpec: guesses per session (the smallest par is 7)
MaxLongGuesses == 8
\* UnitSpec: clubs of range 1..MaxRange and accuracy 0..MaxAccuracy
MaxRange == 12
MaxAccuracy == 5
\* UnitSpec: evaluate_guess on guesses up to MaxOffBy years from the answer
MaxOffBy == 255
WinDepth == 2

Abs(x) == IF x < 0 THEN -x ELSE x
Max(a, b) == IF a >= b THEN a ELSE b
Min(a, b) == IF a <= b THEN a ELSE b

(***************************************************************************)
(* Question                                                                *)
(***************************************************************************)
Temp == {"CORRECT", "EXTREMELY_HOT", "VERY_HOT", "KINDA_HOT", "LUKEWARM",
         "KINDA_COLD", "VERY_COLD", "EXTREMELY_COLD"}

Question(par, question, answer) ==
    [par |-> par, question |-> question, answer |-> answer]

\* evaluate_guess with < written for <= at the first threshold
evaluate_guess_strict(self, guess) ==
    LET off_by == Abs(self.answer - guess) IN
    IF off_by = 0 THEN "CORRECT"
    ELSE IF off_by < 3 THEN "EXTREMELY_HOT"
    ELSE IF off_by <= 10 THEN "VERY_HOT"
    ELSE IF off_by <= 25 THEN "KINDA_HOT"
    ELSE IF off_by <= 50 THEN "LUKEWARM"
    ELSE IF off_by <= 100 THEN "KINDA_COLD"
    ELSE IF off_by <= 250 THEN "VERY_COLD"
    ELSE "EXTREMELY_COLD"

evaluate_guess(self, guess) ==
    LET off_by == Abs(self.answer - guess) IN
    IF off_by = 0 THEN "CORRECT"
    ELSE IF off_by <= 3 THEN "EXTREMELY_HOT"
    ELSE IF off_by <= 10 THEN "VERY_HOT"
    ELSE IF off_by <= 25 THEN "KINDA_HOT"
    ELSE IF off_by <= 50 THEN "LUKEWARM"
    ELSE IF off_by <= 100 THEN "KINDA_COLD"
    ELSE IF off_by <= 250 THEN "VERY_COLD"
    ELSE "EXTREMELY_COLD"

(***************************************************************************)
(* Club                                                                    *)
(***************************************************************************)
Club(name, range, accuracy, is_sand_wedge) ==
    [name |-> name, range |-> range, accuracy |-> accuracy,
     is_sand_wedge |-> is_sand_wedge]

\* random.randint(a, b): any integer of a..b
randint(a, b) == a .. b

\* swing with one line of it changed: the range test (">="), the bunker test
\* ("wedge": `not` left out), the clamps ("clamp": minimum..maximum both ways)
\* the direction test ("forward": target >= start) or the forward cap
\* ("stuck": minimum in place of maximum)
swing_with(self, start, target, bunker, r, bug) ==
    IF IF bug = ">=" THEN Abs(start - target) >= self.range
                     ELSE Abs(start - target) > self.range
    THEN [raised |-> TRUE, minimum |-> 0, maximum |-> 0, value |-> 0]
    ELSE LET tight == IF bug = "wedge" THEN bunker /\ self.is_sand_wedge
                                       ELSE bunker /\ ~self.is_sand_wedge
             minimum == IF tight THEN start - 10 ELSE start - self.range
             maximum == IF tight THEN start + 10 ELSE start + self.range
             low == IF bug = "clamp" THEN minimum ELSE start
             high == IF bug = "clamp" THEN maximum ELSE start
         IN [raised |-> FALSE, minimum |-> minimum, maximum |-> maximum,
             value |-> IF target > start \/ (bug = "forward" /\ target = start)
                       THEN Max(low, Min(IF bug = "stuck" THEN minimum ELSE maximum,
                                         target + r))
                       ELSE IF target < start
                       THEN Min(high, Max(minimum, target + r))
                       ELSE target]

swing_range_off_by_one(self, start, target, bunker, r) ==
    swing_with(self, start, target, bunker, r, ">=")
swing_wedge_test_inverted(self, start, target, bunker, r) ==
    swing_with(self, start, target, bunker, r, "wedge")
swing_clamps_to_bounds(self, start, target, bunker, r) ==
    swing_with(self, start, target, bunker, r, "clamp")
swing_jitters_on_the_spot(self, start, target, bunker, r) ==
    swing_with(self, start, target, bunker, r, "forward")
swing_never_forward(self, start, target, bunker, r) ==
    swing_with(self, start, target, bunker, r, "stuck")

\* Club.swing with the value randint returned given as r.  raised: the
\* ValueError of line 173; minimum, maximum: the locals of lines 176-180;
\* value: the year returned (0 stands in for the locals and value when raised).
swing(self, start, target, bunker, r) ==
    IF Abs(start - target) > self.range
    THEN [raised |-> TRUE, minimum |-> 0, maximum |-> 0, value |-> 0]
    ELSE LET minimum == IF bunker /\ ~self.is_sand_wedge
                        THEN start - 10 ELSE start - self.range
             maximum == IF bunker /\ ~self.is_sand_wedge
                        THEN start + 10 ELSE start + self.range
         IN [raised |-> FALSE, minimum |-> minimum, maximum |-> maximum,
             value |-> IF target > start
                       THEN Max(start, Min(maximum, target + r))
                       ELSE IF target < start
                       THEN Min(start, Max(minimum, target + r))
                       ELSE target]

(***************************************************************************)
(* HotOrColdGolf                                                           *)
(***************************************************************************)
driver         == Club("Driver", 1000, 200, FALSE)
three_wood     == Club("3_Wood", 500, 100, FALSE)
five_wood      == Club("5_Wood", 250, 50, FALSE)
three_iron     == Club("3_Iron", 200, 40, FALSE)
four_iron      == Club("4_Iron", 175, 35, FALSE)
five_iron      == Club("5_Iron", 150, 30, FALSE)
six_iron       == Club("6_Iron", 125, 25, FALSE)
seven_iron     == Club("7_Iron", 100, 20, FALSE)
eight_iron     == Club("8_Iron", 75, 15, FALSE)
nine_iron      == Club("9_Iron", 50, 10, FALSE)
pitching_wedge == Club("Pitching_Wedge", 25, 5, FALSE)
sand_wedge     == Club("Sand_Wedge", 50, 25, TRUE)
\* a putter that reaches less far than the bounds of a bunker
putter_short == Club("Putter", 5, 1, FALSE)
putter         == Club("Putter", 10, 1, FALSE)

golf_bag == <<driver, three_wood, five_wood, three_iron, four_iron, five_iron,
              six_iron, seven_iron, eight_iron, nine_iron, pitching_wedge,
              sand_wedge, putter>>

henry_vii     == Question(11, "henry_vii", 1509)
charles_ii    == Question(7, "charles_ii", 1660)
george_iv     == Question(13, "george_iv", 1820)
world_war_one == Question(9, "world_war_one", 1940)
\* a question answered by the year every session starts at
owen_glyndwr_year_zero == Question(8, "owen_glyndwr", 0)
owen_glyndwr  == Question(8, "owen_glyndwr", 1400)

question_bag == {henry_vii, charles_ii, george_iv, world_war_one, owen_glyndwr}

\* the message a command ends with, and the numbers printed with it
Msg(msg, year, guesses, par, score) ==
    [msg |-> msg, year |-> year, guesses |-> guesses, par |-> par, score |-> score]

NoCall == [op |-> "none"]

\* HotOrColdGolf.__init__ and the banner of main()
Init ==
    /\ curr_club = driver
    /\ curr_question \in question_bag
    /\ curr_year = 0
    /\ num_guesses = 0
    /\ in_bunker = FALSE
    /\ command = <<>>
    /\ pc = "input"
    /\ printed = Msg("Good luck!", 0, 0, curr_question.par, 0)
    /\ guess_calls = 0
    /\ call = NoCall

bunker_intervals == {<<1347, 1351>>, <<1914, 1918>>, <<1939, 1945>>}

\* the orders in which `for bunker in bunker_intervals` may visit the set
BunkerOrders ==
    {o \in [1 .. Cardinality(bunker_intervals) -> bunker_intervals] :
        \A i, j \in DOMAIN o : o[i] = o[j] => i = j}

\* the for loop without its break: the interval visited last decides
RECURSIVE bunker_loop_no_break(_, _, _, _)
bunker_loop_no_break(order, i, actual, flag) ==
    IF i > Len(order) THEN flag
    ELSE bunker_loop_no_break(order, i + 1, actual,
                              order[i][1] <= actual /\ actual <= order[i][2])

\* the for loop of guess from its i-th iteration on, flag being self._in_bunker
RECURSIVE bunker_loop(_, _, _, _)
bunker_loop(order, i, actual, flag) ==
    IF i > Len(order) THEN flag
    ELSE IF order[i][1] <= actual /\ actual <= order[i][2] THEN TRUE
    ELSE bunker_loop(order, i + 1, actual, FALSE)

\* the line guess prints for a tier other than CORRECT
TierPhrase(result) ==
    CASE result = "EXTREMELY_HOT"  -> "HOT HOT HOT!"
      [] result = "VERY_HOT"       -> "Burning hot!"
      [] result = "KINDA_HOT"      -> "Hot!"
      [] result = "LUKEWARM"       -> "Warm!"
      [] result = "KINDA_COLD"     -> "Cold..."
      [] result = "VERY_COLD"      -> "Freezing cold..."
      [] result = "EXTREMELY_COLD" -> "We're going to freeze to death..."

\* the session object as guess reads it
Self ==
    [curr_club |-> curr_club, curr_question |-> curr_question,
     curr_year |-> curr_year, num_guesses |-> num_guesses, in_bunker |-> in_bunker]

\* guess with one line of it changed: the counter bumped after the swing
\* ("count"), the bunker flag cleared by the except branch ("clear"), the
\* score floored at zero ("floor"), a return in place of exit(0) ("return"),
\* or _curr_year set to the target in place of the landing year ("target")
guess_with(self, target, r, bug) ==
    LET n == self.num_guesses + 1
        s == swing(self.curr_club, self.curr_year, target, self.in_bunker, r)
    IN IF s.raised
       THEN {[num_guesses |-> IF bug = "count" THEN self.num_guesses ELSE n,
              curr_year |-> self.curr_year,
              in_bunker |-> IF bug = "clear" THEN FALSE ELSE self.in_bunker,
              pc |-> "input",
              printed |-> Msg("That target is beyond the range of this club!",
                              0, 0, 0, 0)]}
       ELSE LET actual == s.value
                result == evaluate_guess(self.curr_question, actual)
                moved == IF bug = "target" THEN target ELSE actual
            IN {IF result = "CORRECT"
                THEN [num_guesses |-> n, curr_year |-> moved, in_bunker |-> bunker,
                      pc |-> IF bug = "return" THEN "input" ELSE "exited",
                      printed |-> Msg("Correct!", actual, n, self.curr_question.par,
                                      IF bug = "floor"
                                      THEN Max(0, self.curr_question.par - n)
                                      ELSE self.curr_question.par - n)]
                ELSE [num_guesses |-> n, curr_year |-> moved, in_bunker |-> bunker,
                      pc |-> "input",
                      printed |-> Msg(TierPhrase(result), actual, 0, 0, 0)] :
                bunker \in {bunker_loop(order, 1, actual, self.in_bunker) :
                               order \in BunkerOrders}}

guess_counts_after_swing(self, target, r) == guess_with(self, target, r, "count")
guess_clears_bunker_on_error(self, target, r) == guess_with(self, target, r, "clear")
guess_floors_score(self, target, r) == guess_with(self, target, r, "floor")
guess_returns_on_win(self, target, r) == guess_with(self, target, r, "return")
guess_moves_to_target(self, target, r) == guess_with(self, target, r, "target")

\* HotOrColdGolf.guess(target), r being the value randint returns in swing:
\* the outcomes it can end in, one for each order in which the for loop may
\* visit the bunker set.  An outcome is the fields guess leaves behind, where
\* it leaves main() (pc) and what it printed last.
guess(self, target, r) ==
    LET n == self.num_guesses + 1
        s == swing(self.curr_club, self.curr_year, target, self.in_bunker, r)
    IN IF s.raised
       THEN {[num_guesses |-> n, curr_year |-> self.curr_year,
              in_bunker |-> self.in_bunker, pc |-> "input",
              printed |-> Msg("That target is beyond the range of this club!",
                              0, 0, 0, 0)]}
       ELSE LET actual == s.value
                result == evaluate_guess(self.curr_question, actual)
            IN {IF result = "CORRECT"
                THEN [num_guesses |-> n, curr_year |-> actual, in_bunker |-> bunker,
                      pc |-> "exited",
                      printed |-> Msg("Correct!", actual, n, self.curr_question.par,
                                      self.curr_question.par - n)]
                ELSE [num_guesses |-> n, curr_year |-> actual, in_bunker |-> bunker,
                      pc |-> "input",
                      printed |-> Msg(TierPhrase(result), actual, 0, 0, 0)] :
                bunker \in {bunker_loop(order, 1, actual, self.in_bunker) :
                               order \in BunkerOrders}}

\* change_club that refuses to swap clubs inside a bunker
change_club_not_in_bunker(self, club) ==
    IF self.in_bunker THEN self.curr_club ELSE club

\* HotOrColdGolf.change_club(club): the new value of _curr_club
change_club(self, club) == club

(***************************************************************************)
(* main(): command lines.  A line is a sequence of chunks: a word (a run   *)
(* of non-space characters that is not a numeral), a numeral (the decimal  *)
(* text of an integer) or one space character.                             *)
(***************************************************************************)
W(text) == [kind |-> "word", text |-> text, num |-> 0]
N(num)  == [kind |-> "int", text |-> "", num |-> num]
SP      == [kind |-> "space", text |-> " ", num |-> 0]

\* str.startswith(word + " ")
startswith(line, word) ==
    Len(line) >= 2 /\ line[1] = W(word) /\ line[2] = SP

\* str.split(" "): the fields between the spaces, empty fields included
RECURSIVE split(_)
split(line) ==
    IF \A i \in DOMAIN line : line[i] # SP THEN <<line>>
    ELSE LET i == CHOOSE k \in DOMAIN line :
                      line[k] = SP /\ \A j \in 1 .. k - 1 : line[j] # SP
         IN <<SubSeq(line, 1, i - 1)>> \o split(SubSeq(line, i + 1, Len(line)))

\* int(field) raises ValueError unless the field is one numeral
IsInt(field) == Len(field) = 1 /\ field[1].kind = "int"
int(field) == field[1].num

\* the text of a field as a str ("#" for text with a digit or more than one chunk)
Text(field) ==
    IF field = <<>> THEN ""
    ELSE IF Len(field) = 1 /\ field[1].kind = "word" THEN field[1].text
    ELSE "#"

\* str.lower() on the names the model uses
lower(s) ==
    CASE s = "Driver" -> "driver"
      [] s = "3_Wood" -> "3_wood"
      [] s = "5_Wood" -> "5_wood"
      [] s = "3_Iron" -> "3_iron"
      [] s = "4_Iron" -> "4_iron"
      [] s = "5_Iron" -> "5_iron"
      [] s = "6_Iron" -> "6_iron"
      [] s = "7_Iron" -> "7_iron"
      [] s = "8_Iron" -> "8_iron"
      [] s = "9_Iron" -> "9_iron"
      [] s = "Pitching_Wedge" -> "pitching_wedge"
      [] s = "Sand_Wedge" -> "sand_wedge"
      [] s = "Putter" -> "putter"
      [] s = "PUTTER" -> "putter"
      [] s = "Mashie" -> "mashie"
      [] OTHER -> s

\* a line with its leading and trailing spaces dropped and every run of
\* spaces made one space: the non-empty fields joined by single spaces
NonEmpty(field) == field # <<>>
RECURSIVE join(_)
join(fields) ==
    IF fields = <<>> THEN <<>>
    ELSE IF Len(fields) = 1 THEN fields[1]
    ELSE fields[1] \o <<SP>> \o join(Tail(fields))
Normal(line) == join(SelectSeq(split(line), NonEmpty))

\* the if/elif chain of main() run on the trimmed line
Branch_trimmed(line) ==
    IF Normal(line) = <<W("help")>> THEN "help"
    ELSE IF Normal(line) = <<W("clubs")>> THEN "clubs"
    ELSE IF Normal(line) = <<W("question")>> THEN "question"
    ELSE IF Normal(line) = <<W("year")>> THEN "year"
    ELSE IF startswith(Normal(line), "target") THEN "target"
    ELSE IF startswith(Normal(line), "club") THEN "club"
    ELSE IF Normal(line) = <<W("quit")>> THEN "quit"
    ELSE "invalid"

\* the branch of the if/elif chain of main() that a line takes
Branch(line) ==
    IF line = <<W("help")>> THEN "help"
    ELSE IF line = <<W("clubs")>> THEN "clubs"
    ELSE IF line = <<W("question")>> THEN "question"
    ELSE IF line = <<W("year")>> THEN "year"
    ELSE IF startswith(line, "target") THEN "target"
    ELSE IF startswith(line, "club") THEN "club"
    ELSE IF line = <<W("quit")>> THEN "quit"
    ELSE "invalid"

\* the indices of the clubs of the bag that `club <name>` matches
Matches(club_name) ==
    LET lowered == lower(club_name)
    IN {i \in DOMAIN golf_bag : lower(golf_bag[i].name) = lowered}

\* the years the model aims at
Targets == {1000, 1345, 1348, 1360, 1400, 1509, 1660, 1820, 1940}

\* the clubs the model asks for by their exact names
Typed == {"Driver", "Pitching_Wedge", "Sand_Wedge", "Putter"}

\* the lines the model types
Lines ==
    {<<W("help")>>, <<W("clubs")>>, <<W("question")>>, <<W("year")>>,
     <<W("quit")>>, <<W("fore")>>, <<W("target"), SP, W("abc")>>,
     <<W("club"), SP, W("PUTTER")>>, <<W("club"), SP, W("Mashie")>>}
    \cup {<<W("target"), SP, N(t)>> : t \in Targets}
    \cup {<<W("club"), SP, W(name)>> : name \in Typed}

\* the values of randint(-accuracy, accuracy) that Spec explores: both ends,
\* zero and one year either side of it
Jitter(accuracy) ==
    {-accuracy, -1, 0, 1, accuracy} \cap randint(-accuracy, accuracy)

\* input() at line 413
Read(line) == pc = "input" /\ command' = line

help(line) ==
    /\ Read(line) /\ Branch(line) = "help"
    /\ printed' = Msg("help", 0, 0, 0, 0)
    /\ UNCHANGED <<session, pc, guess_calls, call>>

print_clubs(line) ==
    /\ Read(line) /\ Branch(line) = "clubs"
    /\ printed' = Msg("clubs", 0, 0, 0, 0)
    /\ UNCHANGED <<session, pc, guess_calls, call>>

\* print_question drawing a fresh question before printing it
print_question_redraws(line) ==
    /\ Read(line) /\ Branch(line) = "question"
    /\ curr_question' \in question_bag
    /\ printed' = Msg(curr_question'.question, 0, 0, 0, 0)
    /\ UNCHANGED <<curr_club, curr_year, num_guesses, in_bunker,
                   pc, guess_calls, call>>

print_question(line) ==
    /\ Read(line) /\ Branch(line) = "question"
    /\ printed' = Msg(curr_question.question, 0, 0, 0, 0)
    /\ UNCHANGED <<session, pc, guess_calls, call>>

print_year(line) ==
    /\ Read(line) /\ Branch(line) = "year"
    /\ printed' = Msg("Current year:", curr_year, 0, 0, 0)
    /\ UNCHANGED <<session, pc, guess_calls, call>>

\* `target <int>`: lines 423-425, game.guess(year)
Target(line, most) ==
    /\ Read(line) /\ Branch(line) = "target"
    /\ IsInt(split(line)[2])
    /\ num_guesses < most
    /\ guess_calls' = guess_calls + 1
    /\ \E year \in {int(split(line)[2])} :
       \E r \in Jitter(curr_club.accuracy) :
       \E g \in guess(Self, year, r) :
          /\ num_guesses' = g.num_guesses
          /\ curr_year' = g.curr_year
          /\ in_bunker' = g.in_bunker
          /\ pc' = g.pc
          /\ printed' = g.printed
    /\ UNCHANGED <<curr_club, curr_question, call>>

\* TargetInvalid without the except clause: the ValueError ends the loop
TargetInvalid_uncaught(line) ==
    /\ Read(line) /\ Branch(line) = "target"
    /\ ~IsInt(split(line)[2])
    /\ printed' = Msg("ValueError", 0, 0, 0, 0)
    /\ pc' = "returned"
    /\ UNCHANGED <<session, guess_calls, call>>

\* `target <not an int>`: int() raises, lines 426-427
TargetInvalid(line) ==
    /\ Read(line) /\ Branch(line) = "target"
    /\ ~IsInt(split(line)[2])
    /\ printed' = Msg("Invalid year!", 0, 0, 0, 0)
    /\ UNCHANGED <<session, pc, guess_calls, call>>

\* `club <name>` naming a club of the bag: lines 429-436
ClubFound(line) ==
    /\ Read(line) /\ Branch(line) = "club"
    /\ Matches(Text(split(line)[2])) # {}
    /\ LET i == CHOOSE k \in Matches(Text(split(line)[2])) :
                    \A j \in Matches(Text(split(line)[2])) : k <= j
       IN curr_club' = change_club(Self, golf_bag[i])
    /\ printed' = Msg("Changed club to", 0, 0, 0, 0)
    /\ UNCHANGED <<curr_question, curr_year, num_guesses, in_bunker,
                   pc, guess_calls, call>>

\* `club <name>` naming no club: lines 437-438
ClubNotFound(line) ==
    /\ Read(line) /\ Branch(line) = "club"
    /\ Matches(Text(split(line)[2])) = {}
    /\ printed' = Msg("Club not found!", 0, 0, 0, 0)
    /\ UNCHANGED <<session, pc, guess_calls, call>>

\* quit without the break: the farewell is printed and the loop reads on
Quit_keeps_looping(line) ==
    /\ Read(line) /\ Branch(line) = "quit"
    /\ printed' = Msg("Thanks for playing!", 0, 0, 0, 0)
    /\ UNCHANGED <<session, pc, guess_calls, call>>

\* `quit`: lines 439-441
Quit(line) ==
    /\ Read(line) /\ Branch(line) = "quit"
    /\ printed' = Msg("Thanks for playing!", 0, 0, 0, 0)
    /\ pc' = "returned"
    /\ UNCHANGED <<session, guess_calls, call>>

\* any other line: lines 442-443
Invalid(line) ==
    /\ Read(line) /\ Branch(line) = "invalid"
    /\ printed' = Msg("Invalid command!", 0, 0, 0, 0)
    /\ UNCHANGED <<session, pc, guess_calls, call>>

\* the lines of Lines that take each branch
Branches == {"help", "clubs", "question", "year", "target", "club", "quit", "invalid"}
LinesTaking == [b \in Branches |-> {line \in Lines : Branch(line) = b}]

Next ==
    \/ \E line \in LinesTaking["help"] : help(line)
    \/ \E line \in LinesTaking["clubs"] : print_clubs(line)
    \/ \E line \in LinesTaking["question"] : print_question(line)
    \/ \E line \in LinesTaking["year"] : print_year(line)
    \/ \E line \in LinesTaking["target"] : Target(line, MaxGuesses)
    \/ \E line \in LinesTaking["target"] : TargetInvalid(line)
    \/ \E line \in LinesTaking["club"] : ClubFound(line)
    \/ \E line \in LinesTaking["club"] : ClubNotFound(line)
    \/ \E line \in LinesTaking["quit"] : Quit(line)
    \/ \E line \in LinesTaking["invalid"] : Invalid(line)

Spec == Init /\ [][Next]_vars

(***************************************************************************)
(* LongSpec: sessions of up to MaxLongGuesses guesses, typing two targets  *)
(* only, so that a session can run past the par of its question.           *)
(***************************************************************************)
LongLines == {<<W("target"), SP, N(t)>> : t \in {1000, 1660}}

LongNext == \E line \in LongLines : Target(line, MaxLongGuesses)

LongSpec == Init /\ [][LongNext]_vars

(***************************************************************************)
(* SpaceSpec: sessions typed with stray spaces: before the keyword, after  *)
(* it, doubled between keyword and argument, and after the argument.       *)
(***************************************************************************)
SpaceTargets == {1000, 1509}

SpaceLines ==
    {<<W("help")>>, <<W("help"), SP>>, <<SP, W("help")>>,
     <<W("quit")>>, <<W("quit"), SP>>,
     <<W("club"), SP, W("Putter")>>, <<W("club"), SP, SP, W("Putter")>>,
     <<W("club"), SP, W("Putter"), SP>>, <<SP, W("club"), SP, W("Putter")>>,
     <<W("club"), SP, W("Driver")>>}
    \cup {<<W("target"), SP, N(t)>> : t \in SpaceTargets}
    \cup {<<W("target"), SP, SP, N(t)>> : t \in SpaceTargets}
    \cup {<<W("target"), SP, N(t), SP>> : t \in SpaceTargets}
    \cup {<<SP, W("target"), SP, N(t)>> : t \in SpaceTargets}

SpaceNext ==
    \E line \in SpaceLines :
        \/ help(line)
        \/ Target(line, MaxGuesses)
        \/ TargetInvalid(line)
        \/ ClubFound(line)
        \/ ClubNotFound(line)
        \/ Quit(line)
        \/ Invalid(line)

SpaceSpec == Init /\ [][SpaceNext]_vars

(***************************************************************************)
(* UnitSpec: one direct call of Club.swing or Question.evaluate_guess.     *)
(* The initial state holds the arguments, the action adds what the call    *)
(* returns.                                                                *)
(***************************************************************************)
UnitClubs ==
    {Club("club", range, accuracy, w) :
        range \in 1 .. MaxRange, accuracy \in 0 .. MaxAccuracy, w \in BOOLEAN}

UnitStarts == {-2, 0, 1348}

UnitQuestions == question_bag \cup {Question(4, "example", 1500)}

SwingArgs ==
    {[op |-> "swing", done |-> FALSE, self |-> c, start |-> s, target |-> s + d,
      in_bunker |-> b, r |-> 0] :
        c \in UnitClubs, s \in UnitStarts,
        d \in -(MaxRange + 3) .. (MaxRange + 3), b \in BOOLEAN}

EvaluateArgs ==
    {[op |-> "evaluate_guess", done |-> FALSE, self |-> q, guess |-> q.answer + d] :
        q \in UnitQuestions, d \in -MaxOffBy .. MaxOffBy}

UnitInit ==
    /\ curr_club = driver
    /\ curr_question = henry_vii
    /\ curr_year = 0
    /\ num_guesses = 0
    /\ in_bunker = FALSE
    /\ command = <<>>
    /\ pc = "input"
    /\ printed = Msg("Good luck!", 0, 0, curr_question.par, 0)
    /\ guess_calls = 0
    /\ call \in SwingArgs \cup EvaluateArgs

\* self.swing(start, target, in_bunker), randint returning any of its values
CallSwing ==
    /\ call.op = "swing" /\ ~call.done
    /\ \E r \in randint(-call.self.accuracy, call.self.accuracy) :
          LET s == swing(call.self, call.start, call.target, call.in_bunker, r)
          IN call' = [op |-> "swing", done |-> TRUE, self |-> call.self,
                      start |-> call.start, target |-> call.target,
                      in_bunker |-> call.in_bunker, r |-> r,
                      raised |-> s.raised, minimum |-> s.minimum,
                      maximum |-> s.maximum, value |-> s.value]
    /\ UNCHANGED <<session, command, pc, printed, guess_calls>>

\* self.evaluate_guess(guess)
CallEvaluate ==
    /\ call.op = "evaluate_guess" /\ ~call.done
    /\ call' = [op |-> "evaluate_guess", done |-> TRUE, self |-> call.self,
                guess |-> call.guess,
                temp |-> evaluate_guess(call.self, call.guess)]
    /\ UNCHANGED <<session, command, pc, printed, guess_calls>>

UnitNext == CallSwing \/ CallEvaluate

UnitSpec == UnitInit /\ [][UnitNext]_vars

(***************************************************************************)
(* CatalogSpec: one direct call of HotOrColdGolf.guess on a session that   *)
(* holds any club of the bag and stands on a year sessions reach, with     *)
(* randint returning any of its values.                                    *)
(***************************************************************************)
\* years sessions stand on, each with the guesses it takes to get there
CatalogStarts ==
    {[year |-> 0, guesses |-> 0], [year |-> 1000, guesses |-> 1],
     [year |-> 1348, guesses |-> 2], [year |-> 1360, guesses |-> 2]}

\* the flag guess keeps for a year: whether a bunker holds it
InBunker(year) == \E b \in bunker_intervals : b[1] <= year /\ year <= b[2]

\* distances to aim over: around nought, the bunker bounds and the range
CatalogOffsets(club) ==
    {-(club.range + 1), -club.range, -11, -10, -1, 0,
     1, 10, 11, club.range, club.range + 1}

GuessArgs ==
    UNION {{[op |-> "guess", done |-> FALSE,
             self |-> [curr_club |-> club, curr_question |-> q,
                       curr_year |-> s.year, num_guesses |-> s.guesses,
                       in_bunker |-> InBunker(s.year)],
             target |-> s.year + d, r |-> 0] :
               q \in question_bag, s \in CatalogStarts, d \in CatalogOffsets(club)} :
           club \in {golf_bag[i] : i \in DOMAIN golf_bag}}

CatalogInit ==
    /\ curr_club = driver
    /\ curr_question = henry_vii
    /\ curr_year = 0
    /\ num_guesses = 0
    /\ in_bunker = FALSE
    /\ command = <<>>
    /\ pc = "input"
    /\ printed = Msg("Good luck!", 0, 0, curr_question.par, 0)
    /\ guess_calls = 0
    /\ call \in GuessArgs

\* self.guess(target), randint returning any of its values
CallGuess ==
    /\ call.op = "guess" /\ ~call.done
    /\ \E r \in randint(-call.self.curr_club.accuracy, call.self.curr_club.accuracy) :
       \E g \in guess(call.self, call.target, r) :
          call' = [op |-> "guess", done |-> TRUE, self |-> call.self,
                   target |-> call.target, r |-> r, out |-> g]
    /\ UNCHANGED <<session, command, pc, printed, guess_calls>>

CatalogNext == CallGuess

CatalogSpec == CatalogInit /\ [][CatalogNext]_vars

(***************************************************************************)
(* Properties                                                              *)
(***************************************************************************)
RangeError == "That target is beyond the range of this club!"

\* the last command was `target <int>`, i.e. guess(Aimed) was invoked
Guessed == Branch(command) = "target" /\ IsInt(split(command)[2])
Aimed == int(split(command)[2])

\* the last command was a guess whose swing returned a year
Landed == Guessed /\ printed.msg # RangeError

\* C1: in every reachable state of the session in_bunker is true if and only
\* if curr_year lies in [1347,1351], [1914,1918] or [1939,1945].
C1_BunkerIffInterval ==
    in_bunker <=> \/ (1347 <= curr_year /\ curr_year <= 1351)
                  \/ (1914 <= curr_year /\ curr_year <= 1918)
                  \/ (1939 <= curr_year /\ curr_year <= 1945)

\* a guess has landed at 1348 and the flag is set
C1_Witness == Landed /\ curr_year = 1348 /\ in_bunker

\* a guess has landed at 1360, just after the first bunker, and the flag is clear
C1_WitnessLeft == Landed /\ Aimed = 1360 /\ curr_year = 1360 /\ ~in_bunker

\* C2: a guess whose target is farther from curr_year than the club's range
\* adds one to num_guesses, leaves curr_year, in_bunker, curr_club and
\* curr_question as they were, reports the range error and does not win.
C2_RangeErrorFrame ==
    [][(Guessed' /\ Abs(curr_year - Aimed') > curr_club.range)
          => /\ num_guesses' = num_guesses + 1
             /\ UNCHANGED <<curr_year, in_bunker, curr_club, curr_question>>
             /\ printed'.msg = RangeError
             /\ pc' = "input"]_vars

\* a guess has failed for range: the target is out of reach of the club in hand
C2_Witness ==
    /\ Guessed /\ printed.msg = RangeError
    /\ Abs(curr_year - Aimed) > curr_club.range
    /\ num_guesses >= 2 /\ curr_year # 0

\* C3: num_guesses equals the number of guess invocations made so far,
\* range-failed ones included; no other command changes it.
C3_CountsEveryGuess == num_guesses = guess_calls

\* two guesses were made, the last one failed for range, and both are counted
C3_Witness == guess_calls = 2 /\ Guessed /\ printed.msg = RangeError

\* the arguments and the result of a finished swing call
SwingDone == call.op = "swing" /\ call.done

\* C4: swing raises the range error iff |start - target| > range, whatever
\* in_bunker and is_sand_wedge are.
C4_RaisesIffOutOfRange ==
    SwingDone =>
        /\ call.raised <=> Abs(call.start - call.target) > call.self.range
        /\ \A b, w \in BOOLEAN :
              swing(Club(call.self.name, call.self.range, call.self.accuracy, w),
                    call.start, call.target, b, call.r).raised = call.raised

\* Club(range=10, accuracy=1).swing(0, 15, ...) has raised, in a bunker
C4_Witness ==
    /\ SwingDone /\ call.raised /\ call.in_bunker
    /\ call.self.range = 10 /\ call.self.accuracy = 1
    /\ call.start = 0 /\ call.target = 15

\* a target exactly range years away has not raised
C4_WitnessReach ==
    /\ SwingDone /\ ~call.raised
    /\ Abs(call.start - call.target) = call.self.range

\* C5: a successful swing aimed forward returns a year in start..maximum, one
\* aimed backward a year in minimum..start, for every jitter value.
C5_NeverBehindStart ==
    (SwingDone /\ ~call.raised) =>
        /\ call.target > call.start =>
              call.start <= call.value /\ call.value <= call.maximum
        /\ call.target < call.start =>
              call.minimum <= call.value /\ call.value <= call.start

\* the jitter pointed behind start on a forward swing and the result is start
C5_Witness ==
    /\ SwingDone /\ ~call.raised /\ call.target > call.start
    /\ call.target + call.r < call.start /\ call.value = call.start

\* the jitter pointed below minimum on a backward swing and the result is minimum
C5_WitnessBackward ==
    /\ SwingDone /\ ~call.raised /\ call.target < call.start
    /\ call.target + call.r < call.minimum /\ call.value = call.minimum

\* C6: a swing made in a bunker with a club that is no sand wedge uses the
\* bounds start-10 and start+10 whatever the club's range, any other swing
\* start-range and start+range; the flag is in_bunker as it stood before the
\* guess, start is curr_year before it, and the guess lands within the bounds.
C6_BunkerBounds ==
    [][(Guessed' /\ printed'.msg # RangeError)
          => LET s == swing(curr_club, curr_year, Aimed', in_bunker, 0)
                 reach == IF in_bunker /\ ~curr_club.is_sand_wedge
                          THEN 10 ELSE curr_club.range
             IN /\ s.minimum = curr_year - reach
                /\ s.maximum = curr_year + reach
                /\ s.minimum <= curr_year' /\ curr_year' <= s.maximum]_vars

\* the Driver, aimed at 1509 from the bunker year 1348, has landed at 1358
C6_Witness ==
    /\ Landed /\ Aimed = 1509 /\ curr_club = driver
    /\ curr_year = 1358 /\ ~in_bunker

\* the sand wedge, aimed from a bunker year at 1360, has landed 1385
C6_WitnessWedge ==
    /\ Landed /\ Aimed = 1360 /\ curr_club = sand_wedge /\ curr_year = 1385

\* C7: a session won on its N-th guess attempt, range-failed attempts counted,
\* reports N guesses, the par P of its question and the score P - N, negative
\* when N > P.
C7_ScoreIsParMinusGuesses ==
    pc = "exited" =>
        /\ printed.msg = "Correct!"
        /\ curr_year = curr_question.answer
        /\ printed.guesses = guess_calls
        /\ printed.par = curr_question.par
        /\ printed.score = curr_question.par - guess_calls

\* the par 7 question won on the eighth attempt: the score is -1
C7_Witness ==
    /\ pc = "exited" /\ curr_question.par = 7 /\ guess_calls = 8
    /\ printed.score = -1

EvaluateDone == call.op = "evaluate_guess" /\ call.done

\* the years off that the tier stands for
Within(temp, off_by) ==
    CASE temp = "CORRECT"        -> off_by = 0
      [] temp = "EXTREMELY_HOT"  -> 1 <= off_by /\ off_by <= 3
      [] temp = "VERY_HOT"       -> 4 <= off_by /\ off_by <= 10
      [] temp = "KINDA_HOT"      -> 11 <= off_by /\ off_by <= 25
      [] temp = "LUKEWARM"       -> 26 <= off_by /\ off_by <= 50
      [] temp = "KINDA_COLD"     -> 51 <= off_by /\ off_by <= 100
      [] temp = "VERY_COLD"      -> 101 <= off_by /\ off_by <= 250
      [] temp = "EXTREMELY_COLD" -> 251 <= off_by

C9_WitnessExample ==
    /\ EvaluateDone /\ call.self.answer = 1500 /\ call.guess = 1503
    /\ call.temp = "EXTREMELY_HOT"

\* C10: swing(start, start, in_bunker) returns start, for every club, both
\* values of in_bunker and every value randint could return.
C10_OnTheSpot ==
    (SwingDone /\ call.target = call.start) =>
        ~call.raised /\ call.value = call.start

\* a swing on the spot in a bunker, not a sand wedge, the smallest range, with
\* a jitter of the full accuracy drawn
C10_Witness ==
    /\ SwingDone /\ call.target = call.start /\ call.value = call.start
    /\ call.in_bunker /\ ~call.self.is_sand_wedge /\ call.self.range = 1
    /\ call.self.accuracy > 0 /\ call.r = call.self.accuracy

\* C11: curr_year is 0 until a guess lands; a guess that lands sets it to the
\* landing year, which is the year it reports and a year swing can return
\* from the year, club and flag before the guess; every other step (a
\* range-failed guess, a club change, any other command) leaves it.
C11_YearIsLastLanding ==
    /\ curr_year = 0
    /\ [][IF Guessed' /\ printed'.msg # RangeError
          THEN /\ curr_year' = printed'.year
               /\ \E r \in Jitter(curr_club.accuracy) :
                     curr_year' = swing(curr_club, curr_year, Aimed',
                                        in_bunker, r).value
          ELSE curr_year' = curr_year]_vars

\* a guess has landed off its target, and curr_year is where it landed
C11_Witness ==
    /\ Landed /\ curr_year = printed.year
    /\ curr_year # Aimed /\ num_guesses >= 2

\* C12: a line that is no command, a target whose argument is no integer and
\* a club name that is in no bag entry each print their own message, leave
\* the five session fields and the guess count of the loop as they were, and
\* the loop goes on reading.
C12_BadInputIsHarmless ==
    [][LET line == command'
           bad == CASE Branch(line) = "invalid" -> "Invalid command!"
                    [] Branch(line) = "target" /\ ~IsInt(split(line)[2])
                                               -> "Invalid year!"
                    [] Branch(line) = "club" /\ Matches(Text(split(line)[2])) = {}
                                               -> "Club not found!"
                    [] OTHER -> "none"
       IN bad # "none" =>
             /\ printed'.msg = bad
             /\ UNCHANGED <<session, guess_calls>>
             /\ pc' = "input"]_vars

\* mid-session, in a bunker, `target abc` was answered with "Invalid year!"
C12_Witness ==
    /\ command = <<W("target"), SP, W("abc")>> /\ printed.msg = "Invalid year!"
    /\ pc = "input" /\ num_guesses >= 2 /\ in_bunker /\ curr_club # driver

\* mid-session `fore` was answered with "Invalid command!"
C12_WitnessCommand ==
    /\ command = <<W("fore")>> /\ printed.msg = "Invalid command!"
    /\ pc = "input" /\ num_guesses >= 1 /\ curr_year # 0

\* mid-session `club Mashie` was answered with "Club not found!"
C12_WitnessClub ==
    /\ command = <<W("club"), SP, W("Mashie")>> /\ printed.msg = "Club not found!"
    /\ pc = "input" /\ num_guesses >= 1 /\ curr_year # 0

\* C13: a club command naming a bag entry makes that entry the current club,
\* whatever the distance, the bunker flag or the club held before, and leaves
\* curr_year, num_guesses, in_bunker and curr_question as they were.
C13_ChangeClubUnconditional ==
    [][LET line == command'
       IN Branch(line) = "club" /\ Matches(Text(split(line)[2])) # {} =>
             /\ lower(curr_club'.name) = lower(Text(split(line)[2]))
             /\ \E i \in DOMAIN golf_bag : curr_club' = golf_bag[i]
             /\ UNCHANGED <<curr_question, curr_year, num_guesses, in_bunker>>
             /\ printed'.msg = "Changed club to"
             /\ pc' = "input"]_vars

\* inside a bunker, after a guess, `club PUTTER` made the putter current
C13_Witness ==
    /\ command = <<W("club"), SP, W("PUTTER")>> /\ curr_club = putter
    /\ in_bunker /\ num_guesses >= 1

\* C14: help, clubs, question and year change none of the five session
\* fields and the loop goes on; question prints the question of the session
\* and year prints curr_year; and no step of any kind changes curr_question.
C14_InfoCommandsAreReadOnly ==
    [][/\ curr_question' = curr_question
       /\ Branch(command') \in {"help", "clubs", "question", "year"} =>
             /\ UNCHANGED <<session, guess_calls>>
             /\ pc' = "input"
       /\ Branch(command') = "question" =>
             printed'.msg = curr_question.question
       /\ Branch(command') = "year" =>
             printed'.msg = "Current year:" /\ printed'.year = curr_year]_vars

\* mid-session, after two guesses, `question` printed the session's question
C14_Witness ==
    /\ command = <<W("question")>> /\ printed.msg = curr_question.question
    /\ num_guesses >= 2 /\ curr_year # 0 /\ curr_club # driver

\* mid-session `year` printed a non-zero curr_year
C14_WitnessYear ==
    /\ command = <<W("year")>> /\ printed.msg = "Current year:"
    /\ printed.year = curr_year /\ curr_year # 0 /\ in_bunker

\* C15: quit prints the farewell, not a win or a score, leaves the five
\* session fields as they were with curr_year off the answer, and ends the
\* loop without the exit of a win; once the loop has ended no command is
\* processed any more.
C15_QuitEndsWithoutWinning ==
    [][/\ Branch(command') = "quit" =>
             /\ printed'.msg = "Thanks for playing!"
             /\ UNCHANGED <<session, guess_calls>>
             /\ curr_year' # curr_question'.answer
             /\ pc' = "returned"
       /\ pc = "returned" => UNCHANGED vars]_vars

\* the loop has ended on quit after two guesses, away from the answer
C15_Witness ==
    /\ pc = "returned" /\ command = <<W("quit")>>
    /\ printed.msg = "Thanks for playing!"
    /\ num_guesses >= 2 /\ curr_year # 0 /\ curr_year # curr_question.answer

\* C16 as stated: a line is handled as the same line with its stray spaces
\* removed would be: a spaced help prints the help, a spaced quit ends the
\* loop, a spaced target with an integer makes a guess and a spaced club
\* naming a bag entry changes the club.
C16_TrimmedDispatch ==
    [][LET clean == Normal(command')
       IN /\ clean = <<W("help")>> => printed'.msg = "help"
          /\ clean = <<W("quit")>> => pc' = "returned"
          /\ startswith(clean, "target") /\ IsInt(split(clean)[2]) =>
                guess_calls' = guess_calls + 1
          /\ startswith(clean, "club") /\ Matches(Text(split(clean)[2])) # {} =>
                printed'.msg = "Changed club to"]_vars

\* C16, amended: the line is matched as typed.  A space before the keyword
\* or after a bare keyword makes the line an invalid command; a second space
\* between target and its integer makes the year invalid and one between
\* club and the name makes the club unknown, each leaving the session as it
\* was; only spaces after the argument are ignored, the guess or the club
\* change being that of the line without them.
C16_ExactDispatch ==
    [][LET line == command'
           clean == Normal(command')
       IN /\ line # <<>> /\ (Head(line) = SP \/ clean \in {<<W("help")>>, <<W("quit")>>})
                /\ line # clean =>
                /\ printed'.msg = "Invalid command!"
                /\ UNCHANGED <<session, guess_calls, pc>>
          /\ startswith(line, "target") /\ line[3] = SP =>
                /\ printed'.msg = "Invalid year!"
                /\ UNCHANGED <<session, guess_calls, pc>>
          /\ startswith(line, "club") /\ line[3] = SP =>
                /\ printed'.msg = "Club not found!"
                /\ UNCHANGED <<session, guess_calls, pc>>
          /\ startswith(line, "target") /\ line[3] # SP /\ IsInt(split(clean)[2]) =>
                /\ guess_calls' = guess_calls + 1
                /\ \E year \in {int(split(clean)[2])} :
                   \E r \in Jitter(curr_club.accuracy) :
                   \E g \in guess(Self, year, r) :
                      /\ curr_year' = g.curr_year /\ printed' = g.printed
                      /\ num_guesses' = g.num_guesses /\ pc' = g.pc
          /\ startswith(line, "club") /\ line[3] # SP
                /\ Matches(Text(split(clean)[2])) # {} =>
                /\ printed'.msg = "Changed club to"
                /\ lower(curr_club'.name) = lower(Text(split(clean)[2]))]_vars

\* mid-session `help ` was answered with "Invalid command!"
C16_Witness ==
    /\ command = <<W("help"), SP>> /\ printed.msg = "Invalid command!"
    /\ pc = "input" /\ num_guesses >= 1

\* `target  1000`, two spaces, was answered with "Invalid year!" and no guess
C16_WitnessTwoSpaces ==
    /\ command = <<W("target"), SP, SP, N(1000)>>
    /\ printed.msg = "Invalid year!" /\ guess_calls = 0 /\ curr_year = 0

\* `target 1000 `, a space after the year, made a guess that landed
C16_WitnessTrailing ==
    /\ command = <<W("target"), SP, N(1000), SP>>
    /\ printed.msg # "Invalid year!" /\ guess_calls = 1 /\ curr_year # 0

\* C17: while the loop can still read a command, and after quit, curr_year
\* is not the answer of the session's question; so a guess aimed at the year
\* the player already stands on lands on it and does not win.
C17_InProgressOffAnswer ==
    /\ [](pc # "exited" => curr_year # curr_question.answer)
    /\ [][Guessed' /\ Aimed' = curr_year =>
             /\ curr_year' = curr_year
             /\ pc' = "input"
             /\ printed'.msg # "Correct!"]_vars

\* a guess aimed at the answer landed one year off it and the loop reads on
C17_Witness ==
    /\ pc = "input" /\ Landed /\ Aimed = curr_question.answer
    /\ Abs(curr_year - curr_question.answer) = 1

\* a direct call of guess has returned
GuessDone == call.op = "guess" /\ call.done

\* C18: with any of the thirteen clubs of the bag, a guess that lands leaves
\* curr_year at most the club's range away from where it was, whatever
\* randint returned and whether or not the session stood in a bunker.
C18_MovesWithinRange ==
    GuessDone /\ call.out.printed.msg # RangeError =>
        Abs(call.out.curr_year - call.self.curr_year) <= call.self.curr_club.range

\* in a bunker the putter moved the year by its whole range, the bunker bound
C18_Witness ==
    /\ GuessDone /\ call.self.in_bunker /\ call.self.curr_club = putter
    /\ call.out.printed.msg # RangeError
    /\ call.out.curr_year = call.self.curr_year + 10

\* out of a bunker the driver moved the year by its whole range
C18_WitnessDriver ==
    /\ GuessDone /\ ~call.self.in_bunker /\ call.self.curr_club = driver
    /\ call.r > 0 /\ call.out.curr_year = call.self.curr_year + 1000

\* the clubs and targets a player who wants to win picks from: the driver
\* and the sand wedge; the answer, a wedge shot either way, a drive forward
WinClubs == {driver, sand_wedge}
WinTargets(self) ==
    {self.curr_question.answer, self.curr_year + sand_wedge.range,
     self.curr_year - sand_wedge.range, self.curr_year + driver.range}

\* from session self some k or fewer guesses, each after a change of club,
\* with randint returning 0, end in the exit of a win
RECURSIVE CanWin(_, _)
CanWin(k, self) ==
    /\ k > 0
    /\ \E club \in WinClubs :
       \E target \in WinTargets(self) :
       \E r \in {0} \cap randint(-club.accuracy, club.accuracy) :
       \E g \in guess([self EXCEPT !.curr_club = change_club(self, club)],
                       target, r) :
          \/ g.pc = "exited"
          \/ CanWin(k - 1, [curr_club |-> club,
                            curr_question |-> self.curr_question,
                            curr_year |-> g.curr_year,
                            num_guesses |-> g.num_guesses,
                            in_bunker |-> g.in_bunker])

\* C19: in every state in which the loop reads a command, the first one
\* with each of the five questions included, a win is still to be had: some
\* club changes, targets and randint values lead to the exit of a win, in
\* WinDepth guesses or fewer, in a bunker or out of it.
C19_AlwaysWinnable == pc = "input" => CanWin(WinDepth, Self)

\* the player stands in a bunker holding the putter, no single guess wins,
\* and two guesses can
C19_Witness ==
    /\ pc = "input" /\ in_bunker /\ curr_club = putter /\ num_guesses >= 2
    /\ ~CanWin(1, Self) /\ CanWin(WinDepth, Self)

\* the question answered by a year inside a bunker has been won
C19_WitnessWonInBunker ==
    pc = "exited" /\ curr_question = world_war_one /\ curr_year = 1940 /\ in_bunker

\* each of the other four questions has been won
C19_WitnessHenry == pc = "exited" /\ curr_question = henry_vii
C19_WitnessCharles == pc = "exited" /\ curr_question = charles_ii
C19_WitnessGeorge == pc = "exited" /\ curr_question = george_iv
C19_WitnessOwen == pc = "exited" /\ curr_question = owen_glyndwr
====
